---------------------------- MODULE Spec2Model ----------------------------
(***************************************************************************)
(* Model of streamlit_app.py: the PDF/Excel to XBRL converter page.        *)
(*                                                                         *)
(* A Streamlit page is a script that is executed from top to bottom on     *)
(* every interaction.  One action of the model is one script run: the      *)
(* upload (or replacement) of a file, the removal of the file, and a click *)
(* on "Convert to XBRL".  The state holds what the file-uploader widget    *)
(* keeps between runs and what the last run did: what it rendered, which   *)
(* extractor it called, what it sent to the model service, the values of   *)
(* the script's variables when it ended, the exception that ended it.      *)
(*                                                                         *)
(* A text is a sequence of Unicode code points (a Python str).             *)
(***************************************************************************)
EXTENDS Integers, Sequences, FiniteSets, TLC

(***************************************************************************)
(* Bounds of the model.                                                    *)
(***************************************************************************)
MaxPages == 2
MaxSheets == 2
MaxOutLen == 2

(***************************************************************************)
(* Python values of the script's variables.                                *)
(***************************************************************************)
NoneVal == [py |-> "None"]
Unbound == [py |-> "unbound"]
Str(s) == [py |-> "str", chars |-> s]
IsStr(v) == v.py = "str"

Min(a, b) == IF a <= b THEN a ELSE b

\* s[:n] of Python, for n >= 0.
Slice(s, n) == SubSeq(s, 1, Min(n, Len(s)))

\* The concatenation of a sequence of texts, left to right.
RECURSIVE Concat(_)
Concat(ss) == IF ss = <<>> THEN <<>> ELSE Head(ss) \o Concat(Tail(ss))

\* sep.join(ss)
RECURSIVE Join(_, _)
Join(ss, sep) ==
    IF ss = <<>> THEN <<>>
    ELSE IF Len(ss) = 1 THEN ss[1]
    ELSE ss[1] \o sep \o Join(Tail(ss), sep)

(***************************************************************************)
(* Fixed strings of the program.                                           *)
(***************************************************************************)
\* "\n... (truncated)"
TruncationMarker ==
    <<10, 46, 46, 46, 32, 40, 116, 114, 117, 110, 99, 97, 116, 101, 100, 41>>

PreviewLimit == 2000

\* "Sheet: "
SheetPrefix == <<83, 104, 101, 101, 116, 58, 32>>

NL == <<10>>
Comma == <<44>>
DQuote == <<34>>

\* The instruction template of generate_xbrl_with_gemini, up to "input:\n\n".
PromptTemplate ==
    <<89, 111, 117, 32, 97, 114, 101, 32, 97, 110, 32, 101, 120, 112, 101, 114,
      116, 32, 105, 110, 32, 102, 105, 110, 97, 110, 99, 105, 97, 108, 32, 100,
      97, 116, 97, 32, 97, 110, 100, 32, 88, 66, 82, 76, 32, 99, 111, 110, 118,
      101, 114, 115, 105, 111, 110, 46, 32, 67, 111, 110, 118, 101, 114, 116, 32,
      116, 104, 101, 32, 102, 111, 108, 108, 111, 119, 105, 110, 103, 32, 100, 97,
      116, 97, 32, 105, 110, 116, 111, 32, 118, 97, 108, 105, 100, 32, 88, 66, 82,
      76, 32, 88, 77, 76, 32, 102, 111, 114, 109, 97, 116, 46, 32, 73, 102, 32,
      116, 104, 101, 32, 100, 97, 116, 97, 32, 105, 115, 32, 97, 32, 102, 105,
      110, 97, 110, 99, 105, 97, 108, 32, 116, 97, 98, 108, 101, 44, 32, 105, 110,
      102, 101, 114, 32, 116, 104, 101, 32, 99, 111, 114, 114, 101, 99, 116, 32,
      116, 97, 103, 115, 32, 97, 110, 100, 32, 99, 111, 110, 116, 101, 120, 116,
      115, 46, 32, 73, 102, 32, 116, 104, 101, 32, 100, 97, 116, 97, 32, 105, 115,
      32, 116, 101, 120, 116, 117, 97, 108, 44, 32, 101, 120, 116, 114, 97, 99,
      116, 32, 114, 101, 108, 101, 118, 97, 110, 116, 32, 102, 105, 110, 97, 110,
      99, 105, 97, 108, 32, 102, 97, 99, 116, 115, 32, 97, 110, 100, 32, 114, 101,
      112, 114, 101, 115, 101, 110, 116, 32, 116, 104, 101, 109, 32, 105, 110, 32,
      88, 66, 82, 76, 46, 32, 79, 117, 116, 112, 117, 116, 32, 111, 110, 108, 121,
      32, 116, 104, 101, 32, 88, 66, 82, 76, 32, 88, 77, 76, 46, 32, 72, 101, 114,
      101, 32, 105, 115, 32, 116, 104, 101, 32, 105, 110, 112, 117, 116, 58, 10,
      10>>

MimePdf == "application/pdf"
MimeXlsx == "application/vnd.openxmlformats-officedocument.spreadsheetml.sheet"
MimeXls == "application/vnd.ms-excel"

(***************************************************************************)
(* str.encode(): UTF-8.  The texts of the model hold no lone surrogate     *)
(* (the service's response is a protobuf string), so encode() never fails. *)
(***************************************************************************)
Utf8Char(c) ==
    IF c < 128 THEN <<c>>
    ELSE IF c < 2048 THEN <<192 + (c \div 64), 128 + (c % 64)>>
    ELSE IF c < 65536 THEN
        <<224 + (c \div 4096), 128 + ((c \div 64) % 64), 128 + (c % 64)>>
    ELSE <<240 + (c \div 262144), 128 + ((c \div 4096) % 64),
           128 + ((c \div 64) % 64), 128 + (c % 64)>>

\* An ASCII text is its own encoding.  Otherwise: four slots per character,
\* the unused ones then dropped.
Utf8Encode(s) ==
    IF \A i \in 1..Len(s) : s[i] < 128 THEN s
    ELSE LET Slot(k) ==
                 LET bytes == Utf8Char(s[((k - 1) \div 4) + 1])
                     j == ((k - 1) % 4) + 1
                 IN  IF j <= Len(bytes) THEN bytes[j] ELSE -1
             IsByte(b) == b >= 0
         IN  SelectSeq([k \in 1..(4 * Len(s)) |-> Slot(k)], IsByte)

(***************************************************************************)
(* base64.b64encode(...).decode(): the standard alphabet with '=' padding, *)
(* as a text.                                                              *)
(***************************************************************************)
B64Alphabet ==
    <<65, 66, 67, 68, 69, 70, 71, 72, 73, 74, 75, 76, 77, 78, 79, 80, 81, 82,
      83, 84, 85, 86, 87, 88, 89, 90, 97, 98, 99, 100, 101, 102, 103, 104, 105,
      106, 107, 108, 109, 110, 111, 112, 113, 114, 115, 116, 117, 118, 119, 120,
      121, 122, 48, 49, 50, 51, 52, 53, 54, 55, 56, 57, 43, 47>>

B64Pad == 61

\* Every three bytes give four characters, each standing for six bits; a
\* last group of one or two bytes is filled with zero bits and padded.
B64Encode(b) ==
    LET n == Len(b)
        At(i) == IF i <= n THEN b[i] ELSE 0
        Sextet(g, p) ==
            CASE p = 0 -> At(3 * g + 1) \div 4
              [] p = 1 -> (At(3 * g + 1) % 4) * 16 + (At(3 * g + 2) \div 16)
              [] p = 2 -> (At(3 * g + 2) % 16) * 4 + (At(3 * g + 3) \div 64)
              [] OTHER -> At(3 * g + 3) % 64
        Out(k) ==
            LET g == (k - 1) \div 4
                p == (k - 1) % 4
            IN  IF (p = 2 /\ 3 * g + 2 > n) \/ (p = 3 /\ 3 * g + 3 > n)
                THEN B64Pad
                ELSE B64Alphabet[Sextet(g, p) + 1]
    IN  [k \in 1..(4 * ((n + 2) \div 3)) |-> Out(k)]

(***************************************************************************)
(* The uploaded files of the model.  A file is what the uploader widget    *)
(* hands to the script: a name, the media type the browser declared, and   *)
(* the content.  The content is described by what the parsing libraries    *)
(* make of it:                                                             *)
(*   a PDF document is its pages, each of which extract_text() turns into  *)
(*     a text, into None, or into an exception;                            *)
(*   a workbook is its sheets, each with a name and either the DataFrame   *)
(*     (columns and rows of cells, as to_csv prints them) that parse()     *)
(*     returns or an exception;                                            *)
(*   anything else is content neither library can read.                    *)
(***************************************************************************)
TextPage(t) == [out |-> "text", text |-> t]
NonePage == [out |-> "none"]
BadPage == [out |-> "raises"]

PdfDoc(pages) == [kind |-> "pdf", pages |-> pages]
Workbook(sheets) == [kind |-> "workbook", sheets |-> sheets]
Garbage == [kind |-> "garbage"]

\* A text of n code points.
LongAlphabet == <<60, 120, 47, 62, 10, 48, 49, 32>>
LongText(n) == [i \in 1..n |-> LongAlphabet[(i % Len(LongAlphabet)) + 1]]

\* Lengths around the preview limit, and the two lengths of the spec's example.
LongLens ==
    {1500, PreviewLimit - 1, PreviewLimit, PreviewLimit + 1, 3000}

\* All sequences over S of a length in lo..hi.
SeqsOf(S, lo, hi) == UNION {[1..n -> S] : n \in lo..hi}

ShortPages == {NonePage, BadPage, TextPage(<<65>>), TextPage(<<233, 10>>)}

PdfDocs ==
    {PdfDoc(ps) : ps \in SeqsOf(ShortPages, 0, MaxPages)}
    \cup {PdfDoc(<<TextPage(<<>>), TextPage(<<65>>)>>)}
    \cup {PdfDoc(<<TextPage(LongText(n))>>) : n \in LongLens}
    \cup {PdfDoc(<<TextPage(LongText(PreviewLimit)), TextPage(<<65>>)>>)}

\* Q1: Revenue,Cost / 100,40
SheetQ1 ==
    [name |-> <<81, 49>>, parses |-> TRUE,
     columns |-> <<<<82, 101, 118, 101, 110, 117, 101>>, <<67, 111, 115, 116>>>>,
     rows |-> <<<<<<49, 48, 48>>, <<52, 48>>>>>>]
\* Q2: one column named a,b with the cells x"y and e-acute
SheetQ2 ==
    [name |-> <<81, 50>>, parses |-> TRUE,
     columns |-> <<<<97, 44, 98>>>>,
     rows |-> <<<<<<120, 34, 121>>>>, <<<<233>>>>>>]
\* Q3: a header row and no data row
SheetQ3 ==
    [name |-> <<81, 51>>, parses |-> TRUE,
     columns |-> <<<<67, 111, 115, 116>>>>,
     rows |-> <<>>]
\* Q4: a sheet that parse() fails on
SheetQ4 ==
    [name |-> <<81, 52>>, parses |-> FALSE, columns |-> <<>>, rows |-> <<>>]

Sheets == {SheetQ1, SheetQ2, SheetQ3, SheetQ4}

\* A workbook has at least one sheet, and its sheet names are distinct.
Workbooks ==
    {Workbook(ss) : ss \in
        {s \in SeqsOf(Sheets, 1, MaxSheets) :
            \A i, j \in 1..Len(s) : i # j => s[i].name # s[j].name}}

MimeTypes == {MimePdf, MimeXlsx, MimeXls, "application/octet-stream"}

\* The uploader accepts the extensions pdf, xlsx and xls.
NameFor(type) ==
    CASE type = MimeXlsx -> "book.xlsx"
      [] type = MimeXls -> "book.xls"
      [] OTHER -> "report.pdf"

File(type, body) == [name |-> NameFor(type), type |-> type, body |-> body]

\* Contents that are also uploaded under every other declared type.
MisdeclaredBodies ==
    {PdfDoc(<<TextPage(<<65>>)>>), Workbook(<<SheetQ1>>), Garbage}

Files ==
    {File(MimePdf, b) : b \in PdfDocs}
    \cup {File(t, b) : t \in {MimeXlsx, MimeXls}, b \in Workbooks}
    \cup {File(t, b) : t \in MimeTypes, b \in MisdeclaredBodies}

(***************************************************************************)
(* What the model service does with one generate_content call: it returns  *)
(* a response with a text (possibly empty), it raises, or it returns a     *)
(* response whose .text accessor raises (a blocked or empty candidate).    *)
(***************************************************************************)
OutAlphabet == {60, 233}

OutTexts ==
    SeqsOf(OutAlphabet, 0, MaxOutLen)
    \cup {<<8364>>, <<128512, 65>>, <<60, 233, 8364, 128512, 62, 10, 8364>>}
    \cup {LongText(n) : n \in {PreviewLimit, PreviewLimit + 1}}

Responses ==
    {[kind |-> "text", text |-> t] : t \in OutTexts}
    \cup {[kind |-> "raises"], [kind |-> "text_raises"]}

\* The parsing library that is not installed in the process, if any.
Environments == {"none", "PyPDF2", "openpyxl"}


(***************************************************************************)
(* What a script run renders: the st.* calls, in order.                    *)
(***************************************************************************)
Title == [st |-> "title"]
Intro == [st |-> "write"]
Footer == [st |-> "markdown", unsafe_allow_html |-> FALSE]
Success(name) == [st |-> "success", msg |-> "Uploaded file: ", name |-> name]
\* st.error(msg), or st.error(f"{msg}{e}") with e the exception caught.
Error(msg, e) == [st |-> "error", msg |-> msg, exc |-> e]
Subheader(msg) == [st |-> "subheader", msg |-> msg]
Code(body, language) == [st |-> "code", body |-> body, language |-> language]
Button(label) == [st |-> "button", label |-> label]
\* st.markdown of <a href="data:{mime};base64,{b64}" download="{filename}">.
Link(mime, b64, filename) ==
    [st |-> "markdown", unsafe_allow_html |-> TRUE, mime |-> mime,
     b64 |-> b64, download |-> filename, label |-> "Download XBRL Output"]

\* The result of a call: the value returned (Unbound when it raised), what it
\* rendered, and the exception that left it ("none" when it returned).
Returned(v, shown) == [ret |-> v, shown |-> shown, exc |-> "none"]
Raised(e, shown) == [ret |-> Unbound, shown |-> shown, exc |-> e]

(***************************************************************************)
(* extract_text_from_pdf                                                   *)
(***************************************************************************)
\* page.extract_text() or ""
PageText(page) ==
    IF page.out = "text" /\ page.text # <<>> THEN page.text ELSE <<>>

\* A variant of PdfPages: `text = ...` in place of `text += ...`.
RECURSIVE PdfPages_Overwrite(_, _)
PdfPages_Overwrite(pages, text) ==
    IF pages = <<>> THEN Returned(Str(text), <<>>)
    ELSE IF Head(pages).out = "raises" THEN Raised("PdfReadError", <<>>)
    ELSE PdfPages_Overwrite(Tail(pages), PageText(Head(pages)))

\* The loop over pdf_reader.pages, with the text accumulated so far.
RECURSIVE PdfPages(_, _)
PdfPages(pages, text) ==
    IF pages = <<>> THEN Returned(Str(text), <<>>)
    ELSE IF Head(pages).out = "raises" THEN Raised("PdfReadError", <<>>)
    ELSE PdfPages(Tail(pages), text \o PageText(Head(pages)))

extract_text_from_pdf(uploaded_file, missing) ==
    IF missing = "PyPDF2"
    THEN Returned(Str(<<>>),
                  <<Error("PyPDF2 is not installed. Please run pip install PyPDF2.",
                          "none")>>)
    ELSE IF uploaded_file.body.kind # "pdf" THEN Raised("PdfReadError", <<>>)
    ELSE PdfPages(uploaded_file.body.pages, <<>>)

(***************************************************************************)
(* extract_text_from_excel                                                 *)
(***************************************************************************)
\* One field as csv.writer prints it under QUOTE_MINIMAL.
CsvField(cell) ==
    IF \E i \in 1..Len(cell) : cell[i] \in {44, 34, 10, 13}
    THEN DQuote
         \o Concat([i \in 1..Len(cell) |->
                      IF cell[i] = 34 THEN <<34, 34>> ELSE <<cell[i]>>])
         \o DQuote
    ELSE cell

CsvLine(cells) == Join([i \in 1..Len(cells) |-> CsvField(cells[i])], Comma) \o NL

\* A variant of to_csv: df.to_csv(), which also prints the index column.
to_csv_WithIndex(df) ==
    CsvLine(<<<<>>>> \o df.columns)
    \o Concat([i \in 1..Len(df.rows) |-> CsvLine(<<<<47 + i>>>> \o df.rows[i])])

\* df.to_csv(index=False): the header row, then the data rows.
to_csv(df) ==
    CsvLine(df.columns) \o Concat([i \in 1..Len(df.rows) |-> CsvLine(df.rows[i])])

\* The loop over xl.sheet_names, with the text accumulated so far.
RECURSIVE ExcelSheets(_, _)
ExcelSheets(sheets, text) ==
    IF sheets = <<>> THEN Returned(Str(text), <<>>)
    ELSE IF ~Head(sheets).parses
    THEN Returned(Str(<<>>), <<Error("Failed to read Excel file: ", "ParseError")>>)
    ELSE ExcelSheets(Tail(sheets),
                     text \o SheetPrefix \o Head(sheets).name \o NL
                          \o to_csv(Head(sheets)))

extract_text_from_excel(uploaded_file, missing) ==
    IF missing = "openpyxl"
    THEN Returned(Str(<<>>), <<Error("Failed to read Excel file: ", "ImportError")>>)
    ELSE IF uploaded_file.body.kind # "workbook"
    THEN Returned(Str(<<>>), <<Error("Failed to read Excel file: ", "ValueError")>>)
    ELSE ExcelSheets(uploaded_file.body.sheets, <<>>)

(***************************************************************************)
(* generate_xbrl_with_gemini: one generate_content call with the prompt;   *)
(* calls are the prompts sent.  configure() and the GenerativeModel        *)
(* constructor make no request and are taken not to fail.                  *)
(***************************************************************************)
\* A variant: the handler returns the message instead of None.
generate_xbrl_ReturnsMessage(input_text, response) ==
    LET prompt == PromptTemplate \o input_text
    IN  IF response.kind = "text"
        THEN [ret |-> Str(response.text), shown |-> <<>>, exc |-> "none",
              calls |-> <<prompt>>]
        ELSE [ret |-> Str(<<69, 114, 114, 111, 114>>),
              shown |-> <<Error("Error during XBRL generation: ",
                                IF response.kind = "raises"
                                THEN "ServiceError" ELSE "ValueError")>>,
              exc |-> "none", calls |-> <<prompt>>]

\* A variant: the prompt embeds the text as previewed, input_text[:2000].
generate_xbrl_TruncatedPrompt(input_text, response) ==
    LET prompt == PromptTemplate \o Slice(input_text, PreviewLimit)
    IN  IF response.kind = "text"
        THEN [ret |-> Str(response.text), shown |-> <<>>, exc |-> "none",
              calls |-> <<prompt>>]
        ELSE [ret |-> NoneVal,
              shown |-> <<Error("Error during XBRL generation: ",
                                IF response.kind = "raises"
                                THEN "ServiceError" ELSE "ValueError")>>,
              exc |-> "none", calls |-> <<prompt>>]

generate_xbrl_with_gemini(input_text, response) ==
    LET prompt == PromptTemplate \o input_text
    IN  IF response.kind = "text"
        THEN [ret |-> Str(response.text), shown |-> <<>>, exc |-> "none",
              calls |-> <<prompt>>]
        ELSE [ret |-> NoneVal,
              shown |-> <<Error("Error during XBRL generation: ",
                                IF response.kind = "raises"
                                THEN "ServiceError" ELSE "ValueError")>>,
              exc |-> "none", calls |-> <<prompt>>]

(***************************************************************************)
(* download_button                                                         *)
(***************************************************************************)
\* A variant: the link carries the text as previewed, xml_content[:2000].
download_button_Truncated(xml_content, filename) ==
    <<Link("text/xml",
           B64Encode(Utf8Encode(Slice(xml_content, PreviewLimit))), filename)>>

download_button(xml_content, filename) ==
    <<Link("text/xml", B64Encode(Utf8Encode(xml_content)), filename)>>


(***************************************************************************)
(* The script: the module-level UI flow.                                   *)
(***************************************************************************)
\* A variant of HasText: `if input_text is not None:`.
HasText_IsNotNone(input_text) == input_text # NoneVal

\* `if input_text:` -- a str is true when it is not empty, None is false.
HasText(input_text) == IsStr(input_text) /\ input_text.chars # <<>>

\* A variant of HasOutput: `if xbrl_output is not None:`.
HasOutput_IsNotNone(xbrl_output) == xbrl_output # NoneVal

\* `if xbrl_output:`
HasOutput(xbrl_output) == IsStr(xbrl_output) /\ xbrl_output.chars # <<>>

\* input_text[:2000] + ("\n... (truncated)" if len(input_text) > 2000 else "")
InputPreview(input_text) ==
    Slice(input_text, PreviewLimit)
    \o (IF Len(input_text) > PreviewLimit THEN TruncationMarker ELSE <<>>)

\* A variant of OutputPreview: the marker from 2000 characters on (>=).
OutputPreview_AtLimit(xbrl_output) ==
    Slice(xbrl_output, PreviewLimit)
    \o (IF Len(xbrl_output) >= PreviewLimit THEN TruncationMarker ELSE <<>>)

\* xbrl_output[:2000] + ("\n... (truncated)" if len(xbrl_output) > 2000 else "")
OutputPreview(xbrl_output) ==
    Slice(xbrl_output, PreviewLimit)
    \o (IF Len(xbrl_output) > PreviewLimit THEN TruncationMarker ELSE <<>>)

\* A variant of Route: application/vnd.ms-excel is not in the list.
Route_WithoutXls(uploaded_file, missing) ==
    IF uploaded_file.type = MimePdf
    THEN LET r == extract_text_from_pdf(uploaded_file, missing)
         IN  [input_text |-> r.ret, shown |-> r.shown, exc |-> r.exc,
              extractors |-> <<"extract_text_from_pdf">>]
    ELSE IF uploaded_file.type \in {MimeXlsx}
    THEN LET r == extract_text_from_excel(uploaded_file, missing)
         IN  [input_text |-> r.ret, shown |-> r.shown, exc |-> r.exc,
              extractors |-> <<"extract_text_from_excel">>]
    ELSE [input_text |-> NoneVal,
          shown |-> <<Error("Unsupported file type.", "none")>>,
          exc |-> "none", extractors |-> <<>>]

\* The dispatch on the declared type, under the "Extracting data..." spinner.
Route(uploaded_file, missing) ==
    IF uploaded_file.type = MimePdf
    THEN LET r == extract_text_from_pdf(uploaded_file, missing)
         IN  [input_text |-> r.ret, shown |-> r.shown, exc |-> r.exc,
              extractors |-> <<"extract_text_from_pdf">>]
    ELSE IF uploaded_file.type \in {MimeXlsx, MimeXls}
    THEN LET r == extract_text_from_excel(uploaded_file, missing)
         IN  [input_text |-> r.ret, shown |-> r.shown, exc |-> r.exc,
              extractors |-> <<"extract_text_from_excel">>]
    ELSE [input_text |-> NoneVal,
          shown |-> <<Error("Unsupported file type.", "none")>>,
          exc |-> "none", extractors |-> <<>>]

\* The body of `if st.button("Convert to XBRL"):` when the button was clicked.
\* generate_xbrl_with_gemini and download_button raise nothing in the model,
\* so the handler of the surrounding try is not reached.
Convert(input_text, response) ==
    LET g == generate_xbrl_with_gemini(input_text, response)
    IN  [xbrl_output |-> g.ret, calls |-> g.calls,
         shown |-> g.shown
             \o (IF HasOutput(g.ret)
                 THEN <<Subheader("Generated XBRL"),
                        Code(OutputPreview(g.ret.chars), "xml")>>
                      \o download_button(g.ret.chars, "converted_output.xbrl")
                 ELSE <<>>)]

\* `if input_text: ... else: st.error(...)`
Present(input_text, click, response) ==
    IF HasText(input_text)
    THEN LET c == IF click THEN Convert(input_text.chars, response)
                  ELSE [xbrl_output |-> Unbound, calls |-> <<>>, shown |-> <<>>]
         IN  [xbrl_output |-> c.xbrl_output, calls |-> c.calls,
              shown |-> <<Subheader("Extracted Data Preview"),
                          Code(InputPreview(input_text.chars), "text"),
                          Button("Convert to XBRL")>> \o c.shown]
    ELSE [xbrl_output |-> Unbound, calls |-> <<>>,
          shown |-> <<Error("Failed to extract data from the uploaded file.",
                            "none")>>]

\* One run of the script, top to bottom.  An exception that no handler catches
\* ends the run where it is raised: nothing after it is rendered.
Script(uploaded_file, click, response, missing) ==
    IF uploaded_file = NoneVal
    THEN [screen |-> <<Title, Intro, Footer>>, extractors |-> <<>>,
          calls |-> <<>>, raised |-> "none",
          input_text |-> Unbound, xbrl_output |-> Unbound]
    ELSE LET r == Route(uploaded_file, missing)
             top == <<Title, Intro, Success(uploaded_file.name)>> \o r.shown
         IN  IF r.exc # "none"
             THEN [screen |-> top, extractors |-> r.extractors,
                   calls |-> <<>>, raised |-> r.exc,
                   input_text |-> Unbound, xbrl_output |-> Unbound]
             ELSE LET p == Present(r.input_text, click, response)
                  IN  [screen |-> top \o p.shown \o <<Footer>>,
                       extractors |-> r.extractors,
                       calls |-> p.calls, raised |-> "none",
                       input_text |-> r.input_text,
                       xbrl_output |-> p.xbrl_output]

(***************************************************************************)
(* State.                                                                  *)
(*   missing        the parsing library absent from the process            *)
(*   uploaded_file  the file the uploader widget holds, or None            *)
(*   clicked        whether the last run was started by the button         *)
(*   response       what the service did in the last run (None: no click)  *)
(*   screen, extractors, calls, raised, input_text, xbrl_output            *)
(*                  the last run: what it rendered, the extractors it      *)
(*                  called, the prompts it sent, the exception that ended  *)
(*                  it, and its variables at its end                       *)
(***************************************************************************)
VARIABLES missing, uploaded_file, clicked, response, screen, extractors,
          calls, raised, input_text, xbrl_output

vars == <<missing, uploaded_file, clicked, response, screen, extractors,
          calls, raised, input_text, xbrl_output>>

\* The state after the run `run` of the script.
Ran(run) ==
    /\ screen' = run.screen
    /\ extractors' = run.extractors
    /\ calls' = run.calls
    /\ raised' = run.raised
    /\ input_text' = run.input_text
    /\ xbrl_output' = run.xbrl_output

\* The page as first loaded: no file.
Init ==
    /\ missing \in Environments
    /\ uploaded_file = NoneVal
    /\ clicked = FALSE
    /\ response = NoneVal
    /\ screen = <<Title, Intro, Footer>>
    /\ extractors = <<>>
    /\ calls = <<>>
    /\ raised = "none"
    /\ input_text = Unbound
    /\ xbrl_output = Unbound

ButtonOffered == \E i \in 1..Len(screen) : screen[i].st = "button"

\* The user picks a file (the first, or another one).
Upload(f) ==
    /\ uploaded_file' = f
    /\ clicked' = FALSE
    /\ response' = NoneVal
    /\ Ran(Script(f, FALSE, NoneVal, missing))
    /\ UNCHANGED missing

\* The user removes the file.
Remove ==
    /\ uploaded_file # NoneVal
    /\ uploaded_file' = NoneVal
    /\ clicked' = FALSE
    /\ response' = NoneVal
    /\ Ran(Script(NoneVal, FALSE, NoneVal, missing))
    /\ UNCHANGED missing

\* The user clicks "Convert to XBRL", which the last run rendered; the
\* service answers the call with r.
ClickConvert(r) ==
    /\ ButtonOffered
    /\ clicked' = TRUE
    /\ response' = r
    /\ Ran(Script(uploaded_file, TRUE, r, missing))
    /\ UNCHANGED <<missing, uploaded_file>>

Next ==
    \/ \E f \in Files : Upload(f)
    \/ Remove
    \/ \E r \in Responses : ClickConvert(r)

Spec == Init /\ [][Next]_vars


(***************************************************************************)
(* What the last run rendered.                                             *)
(***************************************************************************)
ErrorShown(msg) ==
    \E i \in 1..Len(screen) : screen[i].st = "error" /\ screen[i].msg = msg
AnyErrorShown == \E i \in 1..Len(screen) : screen[i].st = "error"
SubheaderShown(msg) ==
    \E i \in 1..Len(screen) : screen[i].st = "subheader" /\ screen[i].msg = msg
\* The places of the st.code previews in the given language.
Previews(language) ==
    {i \in 1..Len(screen) :
        screen[i].st = "code" /\ screen[i].language = language}
\* The places of the download links.
Links ==
    {i \in 1..Len(screen) :
        screen[i].st = "markdown" /\ screen[i].unsafe_allow_html}

FileUploaded == uploaded_file # NoneVal

MsgExtractFailed == "Failed to extract data from the uploaded file."
MsgUnsupported == "Unsupported file type."
MsgGeneration == "Error during XBRL generation: "
MsgExcel == "Failed to read Excel file: "

(***************************************************************************)
(* C1.  In every run with an uploaded file in which the extraction yields  *)
(* the empty string or no text at all (None), the failure message is       *)
(* reported and no conversion is attempted: the "Convert to XBRL" button   *)
(* is not offered and the model service is not called.                     *)
(***************************************************************************)
C1_EmptyExtractionStops ==
    (FileUploaded /\ input_text \in {Str(<<>>), NoneVal})
        => /\ ErrorShown(MsgExtractFailed)
           /\ ~ButtonOffered
           /\ calls = <<>>
           /\ xbrl_output = Unbound

\* A PDF whose pages have no text was uploaded and its extraction was empty.
C1_Witness ==
    /\ FileUploaded
    /\ extractors = <<"extract_text_from_pdf">>
    /\ missing = "none"
    /\ input_text = Str(<<>>)
    /\ ErrorShown(MsgExtractFailed)

(***************************************************************************)
(* C2.  The router has three outcomes, decided by the declared media type  *)
(* alone: application/pdf calls only the PDF extractor, the two            *)
(* spreadsheet types call only the spreadsheet extractor, any other type   *)
(* reports an error, calls neither, and never reaches the conversion.      *)
(***************************************************************************)
C2_RouterThreeOutcomes ==
    FileUploaded =>
        /\ uploaded_file.type = MimePdf
              => extractors = <<"extract_text_from_pdf">>
        /\ uploaded_file.type \in {MimeXlsx, MimeXls}
              => extractors = <<"extract_text_from_excel">>
        /\ uploaded_file.type \notin {MimePdf, MimeXlsx, MimeXls}
              => /\ extractors = <<>>
                 /\ ErrorShown(MsgUnsupported)
                 /\ input_text = NoneVal
                 /\ ~ButtonOffered
                 /\ calls = <<>>

\* A readable PDF document uploaded under another declared type.
C2_Witness ==
    /\ FileUploaded
    /\ uploaded_file.type = "application/octet-stream"
    /\ uploaded_file.body.kind = "pdf"
    /\ extractors = <<>>
    /\ ErrorShown(MsgUnsupported)

(***************************************************************************)
(* C3.  When the service call of a conversion click raises or returns an   *)
(* error, an error message is reported, generate_xbrl_with_gemini returns  *)
(* None, neither the output preview nor the download link is rendered in   *)
(* that run, and no exception leaves the run.                              *)
(***************************************************************************)
C3_ServiceFailureReported ==
    (clicked /\ response.kind \in {"raises", "text_raises"})
        => /\ ErrorShown(MsgGeneration)
           /\ xbrl_output = NoneVal
           /\ ~SubheaderShown("Generated XBRL")
           /\ Previews("xml") = {}
           /\ Links = {}
           /\ raised = "none"

\* A click whose service call raised.
C3_Witness ==
    /\ clicked
    /\ response.kind = "raises"
    /\ Len(calls) = 1
    /\ ErrorShown(MsgGeneration)

(***************************************************************************)
(* C4.  Every failure of the text extraction, of the PDF extractor as of   *)
(* the spreadsheet extractor (a parsing library that is missing, a file    *)
(* that cannot be read, a failure on a later page or sheet), is caught in  *)
(* the extractor: a message is displayed, the extractor returns the empty  *)
(* string, no partial text, and no exception reaches the caller.           *)
(***************************************************************************)
\* The extraction of the last run met a failure.
PdfFailure ==
    /\ extractors = <<"extract_text_from_pdf">>
    /\ \/ missing = "PyPDF2"
       \/ uploaded_file.body.kind # "pdf"
       \/ \E i \in 1..Len(uploaded_file.body.pages) :
              uploaded_file.body.pages[i] = BadPage
ExcelFailure ==
    /\ extractors = <<"extract_text_from_excel">>
    /\ \/ missing = "openpyxl"
       \/ uploaded_file.body.kind # "workbook"
       \/ \E i \in 1..Len(uploaded_file.body.sheets) :
              ~uploaded_file.body.sheets[i].parses

C4_ExtractionFailuresCaught ==
    (FileUploaded /\ (PdfFailure \/ ExcelFailure))
        => /\ raised = "none"
           /\ input_text = Str(<<>>)
           /\ AnyErrorShown


(***************************************************************************)
(* Decoders, for the round trip of the download link.                      *)
(***************************************************************************)
\* The six bits a character of the base64 alphabet stands for.
B64Index(c) ==
    CASE c \in 65..90 -> c - 65
      [] c \in 97..122 -> c - 71
      [] c \in 48..57 -> c + 4
      [] c = 43 -> 62
      [] c = 47 -> 63

\* base64.b64decode of a padded text.
B64Decode(t) ==
    LET n == Len(t)
        pad == IF n = 0 THEN 0
               ELSE IF t[n - 1] = B64Pad THEN 2
               ELSE IF t[n] = B64Pad THEN 1 ELSE 0
        V(k) == B64Index(t[k])
        Byte(j) ==
            LET g == 4 * ((j - 1) \div 3)
                q == (j - 1) % 3
            IN  CASE q = 0 -> V(g + 1) * 4 + (V(g + 2) \div 16)
                  [] q = 1 -> (V(g + 2) % 16) * 16 + (V(g + 3) \div 4)
                  [] OTHER -> (V(g + 3) % 4) * 64 + V(g + 4)
    IN  [j \in 1..(3 * (n \div 4) - pad) |-> Byte(j)]

\* bytes.decode(): UTF-8.  A character starts at every byte that is not a
\* continuation byte (10xxxxxx).
Utf8Decode(b) ==
    LET IsStart(i) == b[i] < 128 \/ b[i] >= 192
        starts == SelectSeq([i \in 1..Len(b) |-> i], IsStart)
        Cont(i) == b[i] - 128
        CharAt(i) ==
            IF b[i] < 128 THEN b[i]
            ELSE IF b[i] < 224 THEN (b[i] - 192) * 64 + Cont(i + 1)
            ELSE IF b[i] < 240
            THEN (b[i] - 224) * 4096 + Cont(i + 1) * 64 + Cont(i + 2)
            ELSE (b[i] - 240) * 262144 + Cont(i + 1) * 4096
                 + Cont(i + 2) * 64 + Cont(i + 3)
    IN  [k \in 1..Len(starts) |-> CharAt(starts[k])]

(***************************************************************************)
(* C5.  Round trip of the download link: decoding the base64 payload of    *)
(* every rendered link, and the bytes as UTF-8, gives the generated output *)
(* exactly and in full, whatever the preview truncated.                    *)
(***************************************************************************)
C5_DownloadRoundTrip ==
    \A i \in Links :
        /\ clicked
        /\ response.kind = "text"
        /\ screen[i].mime = "text/xml"
        /\ screen[i].download = "converted_output.xbrl"
        /\ Utf8Decode(B64Decode(screen[i].b64)) = response.text
        /\ xbrl_output = Str(response.text)

\* A link to an output longer than the preview shows.
C5_Witness ==
    /\ Links # {}
    /\ clicked
    /\ response.kind = "text"
    /\ Len(response.text) > PreviewLimit

(***************************************************************************)
(* C6.  The previews of the extracted text and of the generated output: a  *)
(* text of more than 2000 characters is displayed as its first 2000        *)
(* characters followed by the truncation marker; a text of at most 2000    *)
(* characters (2000 included) is displayed in full, with no marker.        *)
(***************************************************************************)
PreviewOf(full, displayed) ==
    IF Len(full) > 2000
    THEN /\ Len(displayed) = 2000 + Len(TruncationMarker)
         /\ \A j \in 1..2000 : displayed[j] = full[j]
         /\ \A j \in 1..Len(TruncationMarker) :
                displayed[2000 + j] = TruncationMarker[j]
    ELSE displayed = full

C6_PreviewTruncation ==
    /\ \A i \in Previews("text") : PreviewOf(input_text.chars, screen[i].body)
    /\ \A i \in Previews("xml") : PreviewOf(response.text, screen[i].body)
    /\ (raised = "none" /\ IsStr(input_text) /\ input_text.chars # <<>>)
           => Cardinality(Previews("text")) = 1
    /\ (clicked /\ response.kind = "text" /\ response.text # <<>>)
           => Cardinality(Previews("xml")) = 1

\* An extracted text over the limit and an output of exactly the limit.
C6_Witness ==
    /\ clicked
    /\ response.kind = "text"
    /\ Len(response.text) = 2000
    /\ Len(input_text.chars) > 2000
    /\ Previews("text") # {}
    /\ Previews("xml") # {}


(***************************************************************************)
(* C7.  For a readable workbook with the sheets S1..Sn the spreadsheet     *)
(* extractor returns a text of exactly these lines, each ended by a line   *)
(* feed: for every sheet, in the order of the file, the header line        *)
(* "Sheet: <name>", directly followed by the sheet as comma-separated      *)
(* values (the header row, then one line per data row, no index column);   *)
(* nothing stands between or after the sheets.                             *)
(***************************************************************************)
\* The lines of a text in which every line is ended by a line feed.
RECURSIVE LinesOf(_, _)
LinesOf(text, line) ==
    IF text = <<>> THEN (IF line = <<>> THEN <<>> ELSE <<line>>)
    ELSE IF Head(text) = 10 THEN <<line>> \o LinesOf(Tail(text), <<>>)
    ELSE LinesOf(Tail(text), Append(line, Head(text)))

FieldsLine(cells) == Join([i \in 1..Len(cells) |-> CsvField(cells[i])], Comma)

SheetLines(sheet) ==
    <<SheetPrefix \o sheet.name, FieldsLine(sheet.columns)>>
    \o [i \in 1..Len(sheet.rows) |-> FieldsLine(sheet.rows[i])]

ReadableWorkbook ==
    /\ FileUploaded
    /\ extractors = <<"extract_text_from_excel">>
    /\ missing # "openpyxl"
    /\ uploaded_file.body.kind = "workbook"
    /\ \A i \in 1..Len(uploaded_file.body.sheets) :
           uploaded_file.body.sheets[i].parses

C7_SheetHeadersInOrder ==
    ReadableWorkbook =>
        LET sheets == uploaded_file.body.sheets
            text == input_text.chars
        IN  /\ raised = "none"
            /\ IsStr(input_text)
            /\ text[Len(text)] = 10
            /\ LinesOf(text, <<>>)
                   = Concat([i \in 1..Len(sheets) |-> SheetLines(sheets[i])])

\* A workbook of two sheets, the second with a field that is quoted.
C7_Witness ==
    /\ ReadableWorkbook
    /\ Len(uploaded_file.body.sheets) = 2
    /\ uploaded_file.body.sheets[1] = SheetQ1
    /\ uploaded_file.body.sheets[2] = SheetQ2
    /\ ButtonOffered

(***************************************************************************)
(* C8.  For a readable PDF with the pages P1..Pn the PDF extractor         *)
(* returns the texts of the pages one after the other, in page order and   *)
(* with nothing between them, a page without extractable text giving the   *)
(* empty string; so a PDF none of whose pages has text gives the empty     *)
(* string and is treated as a failed extraction.                           *)
(***************************************************************************)
ReadablePdf ==
    /\ FileUploaded
    /\ extractors = <<"extract_text_from_pdf">>
    /\ missing # "PyPDF2"
    /\ uploaded_file.body.kind = "pdf"
    /\ \A i \in 1..Len(uploaded_file.body.pages) :
           uploaded_file.body.pages[i] # BadPage

\* The text of a page, the empty string for a page without a text layer.
TextOfPage(page) == IF page.out = "text" THEN page.text ELSE <<>>

\* The number of characters of the first k pages.
RECURSIVE CharsBefore(_, _)
CharsBefore(pages, k) ==
    IF k = 0 THEN 0
    ELSE CharsBefore(pages, k - 1) + Len(TextOfPage(pages[k]))

C8_PdfPagesConcatenated ==
    ReadablePdf =>
        LET pages == uploaded_file.body.pages
            text == input_text.chars
        IN  /\ raised = "none"
            /\ IsStr(input_text)
            /\ Len(text) = CharsBefore(pages, Len(pages))
            /\ \A k \in 1..Len(pages) :
                   \A j \in 1..Len(TextOfPage(pages[k])) :
                       text[CharsBefore(pages, k - 1) + j]
                           = TextOfPage(pages[k])[j]
            /\ (\A k \in 1..Len(pages) : TextOfPage(pages[k]) = <<>>)
                   => /\ text = <<>>
                      /\ ErrorShown(MsgExtractFailed)
                      /\ ~ButtonOffered

\* Two pages with text, with a different text on each.
C8_Witness ==
    /\ ReadablePdf
    /\ Len(uploaded_file.body.pages) = 2
    /\ uploaded_file.body.pages[1] = TextPage(<<233, 10>>)
    /\ uploaded_file.body.pages[2] = TextPage(<<65>>)
    /\ input_text = Str(<<233, 10, 65>>)

(***************************************************************************)
(* C9.  Every click on "Convert to XBRL" makes exactly one call to the     *)
(* model service, with the fixed template followed by the whole extracted  *)
(* text (never the truncated preview) as its prompt; after a failed call   *)
(* no second call is made in that run; without a click no call is made.    *)
(***************************************************************************)
C9_OneCallPerClick ==
    /\ clicked =>
         /\ Len(calls) = 1
         /\ IsStr(input_text)
         /\ Len(calls[1]) = Len(PromptTemplate) + Len(input_text.chars)
         /\ \A j \in 1..Len(PromptTemplate) : calls[1][j] = PromptTemplate[j]
         /\ \A j \in 1..Len(input_text.chars) :
                calls[1][Len(PromptTemplate) + j] = input_text.chars[j]
    /\ ~clicked => calls = <<>>

\* A click with an extracted text longer than its preview, the call failing.
C9_Witness ==
    /\ clicked
    /\ response.kind = "raises"
    /\ Len(input_text.chars) > PreviewLimit
    /\ Len(calls) = 1

(***************************************************************************)
(* C10.  A download link is rendered in a run exactly when, in that run,   *)
(* the extraction produced a non-empty text, the button was clicked and    *)
(* the service returned a non-empty text; when the call succeeds with an   *)
(* empty text, neither a link nor any error message is shown.              *)
(***************************************************************************)
C10_LinkExactlyOnSuccess ==
    /\ (Links # {})
         <=> /\ raised = "none"
             /\ IsStr(input_text)
             /\ input_text.chars # <<>>
             /\ clicked
             /\ response.kind = "text"
             /\ response.text # <<>>
    /\ Cardinality(Links) <= 1
    /\ (clicked /\ response.kind = "text" /\ response.text = <<>>)
         => /\ Links = {}
            /\ ~AnyErrorShown
            /\ Previews("xml") = {}
            /\ xbrl_output = Str(<<>>)

\* A click that the service answered with an empty text.
C10_Witness ==
    /\ clicked
    /\ response.kind = "text"
    /\ response.text = <<>>
    /\ Len(calls) = 1

=============================================================================
